---------------------------- MODULE Spec2Model ----------------------------
(* Plugin-set resolution of the Eliza character (src/src/index.ts, the     *)
(* character definition of characters/sample.ts): the ordered plugin list  *)
(* is computed once, when the module is evaluated, from process.env.       *)
(* The starter plugin (plugins/plugin.ts): its action, provider, service,  *)
(* route, event handlers and init, as the runtime calls them.              *)
EXTENDS Naturals, Sequences, FiniteSets

VARIABLES
    env,          \* process.env, restricted to the keys the character reads
    plugins,      \* character.plugins
    pc,           \* "start" before the module is evaluated, then "loaded"
    writes,       \* number of changes made to process.env
    reads,        \* the values successive reads of character.plugins returned
    resolvedFrom, \* the environment character.plugins was computed from
    registry,     \* the runtime's service registered under "starter" (0: none)
    created,      \* number of StarterService instances constructed so far
    pending,      \* instances returned by start, not yet registered by the runtime
    calls,        \* number of StarterService.start calls made so far
    last          \* the latest call into the plugin or the project: input, effects, outcome

pluginVars == <<registry, created, pending, calls, last>>

vars == <<env, plugins, pc, writes, reads, resolvedFrom, pluginVars>>

-----------------------------------------------------------------------------
(* Bounds and input sets *)

\* number of assignments/deletions made on process.env in one run
MaxWrites == 1

\* number of reads of character.plugins in one run
MaxReads == 2

\* number of StarterService.start calls in one run
MaxStarts == 2

\* values written to a key of process.env: empty, blank, padded
EnvStrings == { <<>>, <<" ">>, <<" ", "x", "\t">> }

\* the value a configured key holds when the process starts
KeyValue == <<"x">>

-----------------------------------------------------------------------------
(* Configuration keys read by the character definition *)

TwitterKeys == { "TWITTER_API_KEY", "TWITTER_API_SECRET_KEY",
                 "TWITTER_ACCESS_TOKEN", "TWITTER_ACCESS_TOKEN_SECRET" }

SingleKeys == { "ANTHROPIC_API_KEY", "OPENROUTER_API_KEY", "OPENAI_API_KEY",
                "GOOGLE_GENERATIVE_AI_API_KEY", "OLLAMA_API_ENDPOINT",
                "DISCORD_API_TOKEN", "TELEGRAM_BOT_TOKEN" }

Keys == SingleKeys \cup TwitterKeys \cup { "IGNORE_BOOTSTRAP" }

-----------------------------------------------------------------------------
(* JavaScript values and string helpers *)

WhiteSpace == { " ", "\t" }

RECURSIVE TrimStart(_)
TrimStart(s) ==
    IF Len(s) > 0 /\ Head(s) \in WhiteSpace THEN TrimStart(Tail(s)) ELSE s

RECURSIVE TrimEnd(_)
TrimEnd(s) ==
    IF Len(s) > 0 /\ s[Len(s)] \in WhiteSpace
    THEN TrimEnd(SubSeq(s, 1, Len(s) - 1))
    ELSE s

\* String.prototype.trim
trim(s) == TrimEnd(TrimStart(s))

Undefined == [t |-> "undefined"]
TypeError == [t |-> "TypeError"]
Str(s) == [t |-> "string", s |-> s]

\* process.env.K: the string the key holds, or undefined
EnvGet(e, k) == IF k \in DOMAIN e THEN Str(e[k]) ELSE Undefined

\* variant: v.trim() without optional chaining, a TypeError on undefined
StrictTrim(v) == IF v.t = "string" THEN Str(trim(v.s)) ELSE TypeError

\* variant: the value is used untrimmed
NoTrim(v) == v

\* v?.trim(): undefined stays undefined, a string is trimmed
OptTrim(v) == IF v.t = "undefined" THEN Undefined ELSE Str(trim(v.s))

\* truthiness: undefined and the empty string are falsy
Truthy(v) == v.t = "string" /\ Len(v.s) > 0

\* a && b: a when a is falsy (or threw), else b
AndAlso(a, b) == IF a.t = "TypeError" \/ ~Truthy(a) THEN a ELSE b

\* !a
Not(a) == IF a.t = "TypeError" THEN a ELSE IF Truthy(a) THEN Str(<<>>) ELSE Str(<<"t">>)

\* outcome of evaluating an array expression: the array built, or a throw
Ok(list) == [thrown |-> FALSE, list |-> list]
Thrown == [thrown |-> TRUE, list |-> <<>>]

\* ...(cond ? [id] : [])
Spread(cond, id) ==
    IF cond.t = "TypeError" THEN Thrown
    ELSE IF Truthy(cond) THEN Ok(<<id>>) ELSE Ok(<<>>)

\* elements of an array literal are evaluated left to right
Concat(r1, r2) ==
    IF r1.thrown THEN r1 ELSE IF r2.thrown THEN r2 ELSE Ok(r1.list \o r2.list)

-----------------------------------------------------------------------------
(* character.plugins, category by category *)

CorePlugin == Ok(<<"@elizaos/plugin-sql">>)

\* variant: plugin-openai also listed with the text-only providers
TextOnlyPluginsWithOpenAI(e) ==
    Concat(Spread(OptTrim(EnvGet(e, "ANTHROPIC_API_KEY")),
                  "@elizaos/plugin-anthropic"),
    Concat(Spread(OptTrim(EnvGet(e, "OPENROUTER_API_KEY")),
                  "@elizaos/plugin-openrouter"),
           Spread(OptTrim(EnvGet(e, "OPENAI_API_KEY")),
                  "@elizaos/plugin-openai")))

TextOnlyPlugins(e) ==
    Concat(Spread(OptTrim(EnvGet(e, "ANTHROPIC_API_KEY")),
                  "@elizaos/plugin-anthropic"),
           Spread(OptTrim(EnvGet(e, "OPENROUTER_API_KEY")),
                  "@elizaos/plugin-openrouter"))

EmbeddingPlugins(e) ==
    Concat(Spread(OptTrim(EnvGet(e, "OPENAI_API_KEY")),
                  "@elizaos/plugin-openai"),
           Spread(OptTrim(EnvGet(e, "GOOGLE_GENERATIVE_AI_API_KEY")),
                  "@elizaos/plugin-google-genai"))

\* variant: plugin-ollama only as a fallback, when no other provider is configured
OllamaPluginAsFallback(e) ==
    Spread(AndAlso(Not(OptTrim(EnvGet(e, "ANTHROPIC_API_KEY"))),
           AndAlso(Not(OptTrim(EnvGet(e, "OPENROUTER_API_KEY"))),
           AndAlso(Not(OptTrim(EnvGet(e, "OPENAI_API_KEY"))),
           AndAlso(Not(OptTrim(EnvGet(e, "GOOGLE_GENERATIVE_AI_API_KEY"))),
                   OptTrim(EnvGet(e, "OLLAMA_API_ENDPOINT")))))),
           "@elizaos/plugin-ollama")

OllamaPlugin(e) ==
    Spread(OptTrim(EnvGet(e, "OLLAMA_API_ENDPOINT")), "@elizaos/plugin-ollama")

DiscordPlugin(e) ==
    Spread(OptTrim(EnvGet(e, "DISCORD_API_TOKEN")), "@elizaos/plugin-discord")

\* variant: the fourth credential is not tested
TwitterPluginThreeKeys(e) ==
    Spread(AndAlso(AndAlso(OptTrim(EnvGet(e, "TWITTER_API_KEY")),
                           OptTrim(EnvGet(e, "TWITTER_API_SECRET_KEY"))),
                   OptTrim(EnvGet(e, "TWITTER_ACCESS_TOKEN"))),
           "@elizaos/plugin-twitter")

TwitterPlugin(e) ==
    Spread(AndAlso(AndAlso(AndAlso(OptTrim(EnvGet(e, "TWITTER_API_KEY")),
                                   OptTrim(EnvGet(e, "TWITTER_API_SECRET_KEY"))),
                           OptTrim(EnvGet(e, "TWITTER_ACCESS_TOKEN"))),
                   OptTrim(EnvGet(e, "TWITTER_ACCESS_TOKEN_SECRET"))),
           "@elizaos/plugin-twitter")

\* variant: the suppression flag also switches plugin-telegram off
TelegramPluginUnlessIgnored(e) ==
    Spread(AndAlso(Not(EnvGet(e, "IGNORE_BOOTSTRAP")),
                   OptTrim(EnvGet(e, "TELEGRAM_BOT_TOKEN"))),
           "@elizaos/plugin-telegram")

TelegramPlugin(e) ==
    Spread(OptTrim(EnvGet(e, "TELEGRAM_BOT_TOKEN")), "@elizaos/plugin-telegram")

\* variant: the suppression flag is trimmed like a provider key
BootstrapPluginTrimmed(e) ==
    Spread(Not(OptTrim(EnvGet(e, "IGNORE_BOOTSTRAP"))), "@elizaos/plugin-bootstrap")

BootstrapPlugin(e) ==
    Spread(Not(EnvGet(e, "IGNORE_BOOTSTRAP")), "@elizaos/plugin-bootstrap")

\* variant: embedding-capable providers after platform and bootstrap entries
CharacterPluginsEmbeddingLast(e) ==
    Concat(CorePlugin,
    Concat(TextOnlyPlugins(e),
    Concat(DiscordPlugin(e),
    Concat(TwitterPlugin(e),
    Concat(TelegramPlugin(e),
    Concat(BootstrapPlugin(e),
    Concat(EmbeddingPlugins(e),
           OllamaPlugin(e))))))))

\* variant: the embedding-capable providers come before the text-only ones
CharacterPluginsEmbeddingFirst(e) ==
    Concat(CorePlugin,
    Concat(EmbeddingPlugins(e),
    Concat(OllamaPlugin(e),
    Concat(TextOnlyPlugins(e),
    Concat(DiscordPlugin(e),
    Concat(TwitterPlugin(e),
    Concat(TelegramPlugin(e),
           BootstrapPlugin(e))))))))

\* variant: the bootstrap entry heads the list
CharacterPluginsBootstrapFirst(e) ==
    Concat(BootstrapPlugin(e),
    Concat(CorePlugin,
    Concat(TextOnlyPlugins(e),
    Concat(EmbeddingPlugins(e),
    Concat(OllamaPlugin(e),
    Concat(DiscordPlugin(e),
    Concat(TwitterPlugin(e),
           TelegramPlugin(e))))))))

CharacterPlugins(e) ==
    Concat(CorePlugin,
    Concat(TextOnlyPlugins(e),
    Concat(EmbeddingPlugins(e),
    Concat(OllamaPlugin(e),
    Concat(DiscordPlugin(e),
    Concat(TwitterPlugin(e),
    Concat(TelegramPlugin(e),
           BootstrapPlugin(e))))))))

-----------------------------------------------------------------------------
(* The process *)

\* environments a process starts with: every key is unset or configured;
\* the four Twitter credentials are configured together or not at all
StartEnvs ==
    { [k \in S |-> KeyValue] :
        S \in { T \in SUBSET Keys :
                  TwitterKeys \subseteq T \/ TwitterKeys \cap T = {} } }

Init ==
    /\ env \in StartEnvs
    /\ plugins = <<>>
    /\ pc = "start"
    /\ writes = 0
    /\ reads = <<>>
    /\ resolvedFrom = << >>
    /\ registry = 0
    /\ created = 0
    /\ pending = {}
    /\ calls = 0
    /\ last = [op |-> "none"]

\* variant: a write to the environment of a loaded character resolves the
\* plugin list again
SetEnvLive(k, v) ==
    /\ writes < MaxWrites
    /\ env' = [x \in DOMAIN env \cup {k} |-> IF x = k THEN v ELSE env[x]]
    /\ writes' = writes + 1
    /\ plugins' = IF pc = "loaded" THEN CharacterPlugins(env').list ELSE plugins
    /\ UNCHANGED <<pc, reads, resolvedFrom, pluginVars>>

\* process.env[k] = v
SetEnv(k, v) ==
    /\ writes < MaxWrites
    /\ env' = [x \in DOMAIN env \cup {k} |-> IF x = k THEN v ELSE env[x]]
    /\ writes' = writes + 1
    /\ UNCHANGED <<plugins, pc, reads, resolvedFrom, pluginVars>>

\* delete process.env[k]
DeleteEnv(k) ==
    /\ writes < MaxWrites
    /\ k \in DOMAIN env
    /\ env' = [x \in DOMAIN env \ {k} |-> env[x]]
    /\ writes' = writes + 1
    /\ UNCHANGED <<plugins, pc, reads, resolvedFrom, pluginVars>>

\* evaluation of the module: the character object is built once, from the
\* environment of that moment (recorded in resolvedFrom)
LoadCharacter ==
    /\ pc = "start"
    /\ LET r == CharacterPlugins(env)
       IN  IF r.thrown
           THEN /\ pc' = "failed"
                /\ plugins' = plugins
           ELSE /\ pc' = "loaded"
                /\ plugins' = r.list
    /\ resolvedFrom' = env
    /\ UNCHANGED <<env, writes, reads, pluginVars>>

\* variant: every read resolves the list again from the current environment
ReadPluginsLive ==
    /\ pc = "loaded"
    /\ Len(reads) < MaxReads
    /\ reads' = Append(reads, CharacterPlugins(env).list)
    /\ UNCHANGED <<env, plugins, pc, writes, resolvedFrom, pluginVars>>

\* const plugins = character.plugins
ReadPlugins ==
    /\ pc = "loaded"
    /\ Len(reads) < MaxReads
    /\ reads' = Append(reads, plugins)
    /\ UNCHANGED <<env, plugins, pc, writes, resolvedFrom, pluginVars>>

\* the environment is prepared (shell, dotenv) before the module is evaluated
ConfigureEnv ==
    /\ pc = "start"
    /\ \/ \E k \in Keys, v \in EnvStrings : SetEnv(k, v)
       \/ \E k \in Keys : DeleteEnv(k)

\* the environment is changed while the character object is in use
ChangeEnv ==
    /\ pc = "loaded"
    /\ \/ \E k \in Keys, v \in EnvStrings : SetEnv(k, v)
       \/ \E k \in Keys : DeleteEnv(k)

\* resolution: the environment is configured, then the module is evaluated
Next ==
    \/ ConfigureEnv
    \/ LoadCharacter

Spec == Init /\ [][Next]_vars

\* use: the module is evaluated, then the list is read while the
\* environment changes
NextLoaded ==
    \/ LoadCharacter
    \/ ChangeEnv
    \/ ReadPlugins

SpecLoaded == Init /\ [][NextLoaded]_vars

-----------------------------------------------------------------------------
(* StarterService and the runtime's service registry *)

\* runtime.getService(StarterService.serviceType): the instance, or 0 for none
GetService == registry

\* variant: start does not look the service up
StarterServiceStartUnchecked ==
    /\ pc = "loaded"
    /\ calls < MaxStarts
    /\ calls' = calls + 1
    /\ created' = created + 1
    /\ pending' = pending \cup { created + 1 }
    /\ last' = [ op |-> "StarterService.start", found |-> GetService,
                 threw |-> FALSE, error |-> "", instance |-> created + 1 ]
    /\ UNCHANGED <<registry, env, plugins, pc, writes, reads, resolvedFrom>>

\* variant: start registers the instance it constructs
StarterServiceStartRegistering ==
    /\ pc = "loaded"
    /\ calls < MaxStarts
    /\ calls' = calls + 1
    /\ IF GetService # 0
       THEN /\ last' = [ op |-> "StarterService.start", found |-> GetService,
                         threw |-> TRUE,
                         error |-> "Starter service already registered",
                         instance |-> 0 ]
            /\ UNCHANGED <<created, registry>>
       ELSE /\ created' = created + 1
            /\ registry' = created + 1
            /\ last' = [ op |-> "StarterService.start", found |-> GetService,
                         threw |-> FALSE, error |-> "",
                         instance |-> created + 1 ]
    /\ UNCHANGED <<pending, env, plugins, pc, writes, reads, resolvedFrom>>

\* static async start(runtime): no await inside, the body runs in one step
StarterServiceStart ==
    /\ pc = "loaded"
    /\ calls < MaxStarts
    /\ calls' = calls + 1
    /\ IF GetService # 0
       THEN /\ last' = [ op |-> "StarterService.start", found |-> GetService,
                         threw |-> TRUE,
                         error |-> "Starter service already registered",
                         instance |-> 0 ]
            /\ UNCHANGED <<created, pending>>
       ELSE /\ created' = created + 1
            /\ pending' = pending \cup { created + 1 }
            /\ last' = [ op |-> "StarterService.start", found |-> GetService,
                         threw |-> FALSE, error |-> "",
                         instance |-> created + 1 ]
    /\ UNCHANGED <<registry, env, plugins, pc, writes, reads, resolvedFrom>>

\* runtime.registerService(StarterService.serviceType, instance), done by the
\* runtime with an instance a start call returned
RegisterService(i) ==
    /\ i \in pending
    /\ registry' = i
    /\ pending' = pending \ { i }
    /\ UNCHANGED <<created, calls, last, env, plugins, pc, writes, reads, resolvedFrom>>

\* variant: stop does not test the looked-up service
StarterServiceStopUnchecked ==
    /\ pc = "loaded"
    /\ last' = [ op |-> "StarterService.stop", found |-> GetService,
                 threw |-> FALSE, error |-> "",
                 invoked |-> IF GetService = 0 THEN <<>> ELSE <<GetService>> ]
    /\ UNCHANGED <<registry, created, pending, calls,
                   env, plugins, pc, writes, reads, resolvedFrom>>

\* variant: a successful stop removes the instance from the registry
StarterServiceStopUnregistering ==
    /\ pc = "loaded"
    /\ IF GetService = 0
       THEN /\ last' = [ op |-> "StarterService.stop", found |-> GetService,
                         threw |-> TRUE, error |-> "Starter service not found",
                         invoked |-> <<>> ]
            /\ registry' = registry
       ELSE /\ last' = [ op |-> "StarterService.stop", found |-> GetService,
                         threw |-> FALSE, error |-> "",
                         invoked |-> <<GetService>> ]
            /\ registry' = 0
    /\ UNCHANGED <<created, pending, calls,
                   env, plugins, pc, writes, reads, resolvedFrom>>

\* static async stop(runtime); invoked lists the instances whose stop() ran
StarterServiceStop ==
    /\ pc = "loaded"
    /\ IF GetService = 0
       THEN last' = [ op |-> "StarterService.stop", found |-> GetService,
                      threw |-> TRUE, error |-> "Starter service not found",
                      invoked |-> <<>> ]
       ELSE last' = [ op |-> "StarterService.stop", found |-> GetService,
                      threw |-> FALSE, error |-> "",
                      invoked |-> <<GetService>> ]
    /\ UNCHANGED <<registry, created, pending, calls,
                   env, plugins, pc, writes, reads, resolvedFrom>>

-----------------------------------------------------------------------------
(* The starter plugin: HELLO_WORLD action *)

\* the instants Date.now() is read at
Clock == { "t1" }

\* an object literal without properties
EmptyObject == [x \in {} |-> x]

\* obj[field]: undefined for a property the object does not have
Get(obj, field) == IF field \in DOMAIN obj THEN obj[field] ELSE Undefined

\* the Memory objects handed to the handler: without content, with content
\* that has no source, and with content from two sources
Messages ==
    { [ id |-> "m1" ],
      [ id |-> "m2", content |-> [ text |-> "Hello!" ] ],
      [ id |-> "m3", content |-> [ text |-> "Hello!", source |-> "test" ] ],
      [ id |-> "m4", content |-> [ text |-> "Hello!", source |-> "discord" ] ] }

\* what the supplied callback does when it is called: it returns, it throws
\* an Error, or its promise rejects with a value that is not an Error
Callbacks == { "returns", "throws", "rejects" }

\* reading .source of message.content when message.content is undefined
ContentTypeError ==
    [ isError |-> TRUE,
      message |-> "Cannot read properties of undefined (reading 'source')" ]

\* the value a call of the callback throws or rejects with
CallbackThrows(callback) ==
    IF callback = "throws"
    THEN [ isError |-> TRUE, message |-> "callback failed" ]
    ELSE [ isError |-> FALSE, message |-> "send failed" ]

\* const responseContent: Content = { text, actions, source }
ResponseContent(message) ==
    [ text |-> "hello world!",
      actions |-> <<"HELLO_WORLD">>,
      source |-> Get(message.content, "source") ]

\* the result returned after the callback completed
GreetingSent(message, now) ==
    [ text |-> "Sent hello world greeting",
      values |-> [ success |-> TRUE, greeted |-> TRUE ],
      data |-> [ actionName |-> "HELLO_WORLD", messageId |-> message.id,
                 timestamp |-> now ],
      success |-> TRUE ]

\* variant: the catch block returns the failure without the caught error
GreetingFailedWithoutError(error) ==
    [ text |-> "Failed to send hello world greeting",
      values |-> [ success |-> FALSE, error |-> "GREETING_FAILED" ],
      data |-> [ actionName |-> "HELLO_WORLD" ],
      success |-> FALSE ]

\* the result returned by the catch block; error.message of an Error,
\* String(error) of any other value, which is wrapped in a new Error
GreetingFailed(error) ==
    [ text |-> "Failed to send hello world greeting",
      values |-> [ success |-> FALSE, error |-> "GREETING_FAILED" ],
      data |-> [ actionName |-> "HELLO_WORLD", error |-> error.message ],
      success |-> FALSE,
      error |-> [ isError |-> TRUE, message |-> error.message ] ]

CallbackEvent(content) == [ ev |-> "callback", content |-> content ]

ReturnEvent(result) == [ ev |-> "return", result |-> result ]

\* variant: the handler reports success whatever the callback does
HelloWorldHandlerUnconditional(message, callback, now) ==
    IF "content" \notin DOMAIN message
    THEN <<ReturnEvent(GreetingFailed(ContentTypeError))>>
    ELSE <<CallbackEvent(ResponseContent(message)),
           ReturnEvent(GreetingSent(message, now))>>

\* variant: the callback is scheduled and runs after the handler returned
HelloWorldHandlerDetached(message, callback, now) ==
    IF "content" \notin DOMAIN message
    THEN <<ReturnEvent(GreetingFailed(ContentTypeError))>>
    ELSE <<ReturnEvent(GreetingSent(message, now)),
           CallbackEvent(ResponseContent(message))>>

\* helloWorldAction.handler: the trace of one invocation, the calls of the
\* callback and the return of the handler in the order they happen
HelloWorldHandler(message, callback, now) ==
    IF "content" \notin DOMAIN message
    THEN <<ReturnEvent(GreetingFailed(ContentTypeError))>>
    ELSE IF callback = "returns"
         THEN <<CallbackEvent(ResponseContent(message)),
                ReturnEvent(GreetingSent(message, now))>>
         ELSE <<CallbackEvent(ResponseContent(message)),
                ReturnEvent(GreetingFailed(CallbackThrows(callback)))>>

\* the runtime (or a test) executes the action
HelloWorldAction ==
    /\ pc = "loaded"
    /\ \E message \in Messages, callback \in Callbacks, now \in Clock :
          last' = [ op |-> "HELLO_WORLD.handler",
                    message |-> message,
                    callback |-> callback,
                    trace |-> HelloWorldHandler(message, callback, now) ]
    /\ UNCHANGED <<registry, created, pending, calls,
                   env, plugins, pc, writes, reads, resolvedFrom>>

-----------------------------------------------------------------------------
(* The starter plugin: provider, init, route, events; the project agent *)

\* an argument of provider.get: null, an object lacking the required
\* properties, or a well-formed object
ProviderInputs == { "null", "malformed", "valid" }

\* variant: get reads the text of the message it is given
HelloWorldProviderGetReadingMessage(runtime, message, state) ==
    IF message = "valid"
    THEN [ threw |-> FALSE,
           result |-> [ text |-> "I am a provider", values |-> EmptyObject,
                        data |-> EmptyObject ] ]
    ELSE [ threw |-> TRUE, result |-> Undefined ]

\* helloWorldProvider.get: no parameter is read
HelloWorldProviderGet(runtime, message, state) ==
    [ threw |-> FALSE,
      result |-> [ text |-> "I am a provider", values |-> EmptyObject,
                   data |-> EmptyObject ] ]

\* the runtime (or a test) asks the provider
HelloWorldProvider ==
    /\ pc = "loaded"
    /\ \E runtime \in { "null", "valid" }, message \in ProviderInputs,
          state \in { "null", "valid" } :
          last' = [ op |-> "HELLO_WORLD_PROVIDER.get",
                    runtime |-> runtime, message |-> message, state |-> state,
                    outcome |-> HelloWorldProviderGet(runtime, message, state) ]
    /\ UNCHANGED <<registry, created, pending, calls,
                   env, plugins, pc, writes, reads, resolvedFrom>>

\* the keys and values of the configs handed to init
ConfigKeys == { "EXAMPLE_PLUGIN_VARIABLE", "EXTRA_PROPERTY" }

ConfigStrings == { <<>>, <<" ">>, KeyValue }

\* EXAMPLE_PLUGIN_VARIABLE absent or any of the strings, EXTRA_PROPERTY
\* absent or given
Configs ==
    { c \in UNION { [S -> ConfigStrings] : S \in SUBSET ConfigKeys } :
         "EXTRA_PROPERTY" \in DOMAIN c => c["EXTRA_PROPERTY"] = KeyValue }

\* variant: the schema trims the value before it tests its length
ParseConfigTrimmed(config) ==
    IF /\ "EXAMPLE_PLUGIN_VARIABLE" \in DOMAIN config
       /\ Len(trim(config["EXAMPLE_PLUGIN_VARIABLE"])) < 1
    THEN [ success |-> FALSE,
           errors |-> <<"Example plugin variable is not provided">>,
           data |-> EmptyObject ]
    ELSE [ success |-> TRUE,
           errors |-> <<>>,
           data |-> [k \in DOMAIN config \cap {"EXAMPLE_PLUGIN_VARIABLE"} |->
                        config[k]] ]

\* variant: the schema passes unknown keys through
ParseConfigPassthrough(config) ==
    IF /\ "EXAMPLE_PLUGIN_VARIABLE" \in DOMAIN config
       /\ Len(config["EXAMPLE_PLUGIN_VARIABLE"]) < 1
    THEN [ success |-> FALSE,
           errors |-> <<"Example plugin variable is not provided">>,
           data |-> EmptyObject ]
    ELSE [ success |-> TRUE,
           errors |-> <<>>,
           data |-> config ]

\* configSchema.parseAsync(config): EXAMPLE_PLUGIN_VARIABLE is optional and,
\* when given, a string of length at least 1; unknown keys are stripped
ParseConfig(config) ==
    IF /\ "EXAMPLE_PLUGIN_VARIABLE" \in DOMAIN config
       /\ Len(config["EXAMPLE_PLUGIN_VARIABLE"]) < 1
    THEN [ success |-> FALSE,
           errors |-> <<"Example plugin variable is not provided">>,
           data |-> EmptyObject ]
    ELSE [ success |-> TRUE,
           errors |-> <<>>,
           data |-> [k \in DOMAIN config \cap {"EXAMPLE_PLUGIN_VARIABLE"} |->
                        config[k]] ]

\* messages.join(", ")
RECURSIVE Join(_)
Join(messages) ==
    IF Len(messages) = 0 THEN ""
    ELSE IF Len(messages) = 1 THEN messages[1]
    ELSE messages[1] \o ", " \o Join(Tail(messages))

\* new Error(`Invalid plugin configuration: ${...}`)
ConfigError(errors) ==
    [ isError |-> TRUE,
      message |-> "Invalid plugin configuration: " \o Join(errors) ]

\* variant: a variable the environment already has is not written
PluginInitKeepExisting ==
    /\ pc = "loaded"
    /\ \E config \in Configs :
          LET validated == ParseConfig(config)
              written == { k \in DOMAIN validated.data :
                              Len(validated.data[k]) > 0 /\ k \notin DOMAIN env }
          IN  IF validated.success
              THEN /\ env' = [x \in DOMAIN env \cup written |->
                                 IF x \in written THEN validated.data[x]
                                 ELSE env[x]]
                   /\ last' = [ op |-> "plugin.init", config |-> config,
                                threw |-> FALSE, error |-> Undefined,
                                errors |-> <<>> ]
              ELSE /\ env' = env
                   /\ last' = [ op |-> "plugin.init", config |-> config,
                                threw |-> TRUE,
                                error |-> ConfigError(validated.errors),
                                errors |-> validated.errors ]
    /\ UNCHANGED <<registry, created, pending, calls,
                   plugins, pc, writes, reads, resolvedFrom>>

\* variant: the config is written to the environment before it is validated
PluginInitWriteFirst ==
    /\ pc = "loaded"
    /\ \E config \in Configs :
          LET validated == ParseConfig(config)
              written == DOMAIN config \cap {"EXAMPLE_PLUGIN_VARIABLE"}
          IN  /\ env' = [x \in DOMAIN env \cup written |->
                            IF x \in written THEN config[x] ELSE env[x]]
              /\ IF validated.success
                 THEN last' = [ op |-> "plugin.init", config |-> config,
                                threw |-> FALSE, error |-> Undefined,
                                errors |-> <<>> ]
                 ELSE last' = [ op |-> "plugin.init", config |-> config,
                                threw |-> TRUE,
                                error |-> ConfigError(validated.errors),
                                errors |-> validated.errors ]
    /\ UNCHANGED <<registry, created, pending, calls,
                   plugins, pc, writes, reads, resolvedFrom>>

\* plugin.init(config): one validation; every truthy validated value is
\* written to process.env, a validation error is thrown to the caller
PluginInit ==
    /\ pc = "loaded"
    /\ \E config \in Configs :
          LET validated == ParseConfig(config)
              written == { k \in DOMAIN validated.data :
                              Len(validated.data[k]) > 0 }
          IN  IF validated.success
              THEN /\ env' = [x \in DOMAIN env \cup written |->
                                 IF x \in written THEN validated.data[x]
                                 ELSE env[x]]
                   /\ last' = [ op |-> "plugin.init", config |-> config,
                                threw |-> FALSE, error |-> Undefined,
                                errors |-> <<>> ]
              ELSE /\ env' = env
                   /\ last' = [ op |-> "plugin.init", config |-> config,
                                threw |-> TRUE,
                                error |-> ConfigError(validated.errors),
                                errors |-> validated.errors ]
    /\ UNCHANGED <<registry, created, pending, calls,
                   plugins, pc, writes, reads, resolvedFrom>>

\* the requests the route is called with: bare, with a query, with a body
Requests ==
    { EmptyObject, [ query |-> "message=x" ], [ body |-> [ message |-> "x" ] ] }

\* variant: a request that has a body is answered with that body
HelloWorldRouteEcho ==
    /\ pc = "loaded"
    /\ \E req \in Requests :
          last' = [ op |-> "GET /helloworld", req |-> req,
                    json |-> IF "body" \in DOMAIN req
                             THEN <<req.body>>
                             ELSE <<[ message |-> "Hello World!" ]>> ]
    /\ UNCHANGED <<registry, created, pending, calls,
                   env, plugins, pc, writes, reads, resolvedFrom>>

\* GET /helloworld: res.json({ message: "Hello World!" }); _req is not read;
\* json lists the payloads handed to res.json
HelloWorldRoute ==
    /\ pc = "loaded"
    /\ \E req \in Requests :
          last' = [ op |-> "GET /helloworld", req |-> req,
                    json |-> <<[ message |-> "Hello World!" ]>> ]
    /\ UNCHANGED <<registry, created, pending, calls,
                   env, plugins, pc, writes, reads, resolvedFrom>>

EventNames ==
    { "MESSAGE_RECEIVED", "VOICE_MESSAGE_RECEIVED", "WORLD_CONNECTED",
      "WORLD_JOINED" }

\* the property names of the params object an event is emitted with
ParamKeys == { "runtime" }

\* the handlers of plugin.events: each logs the event and the keys of params
EventHandler ==
    /\ pc = "loaded"
    /\ \E name \in EventNames, params \in SUBSET ParamKeys :
          last' = [ op |-> name,
                    logged |-> << name \o " event received",
                                  [ keys |-> params ] >> ]
    /\ UNCHANGED <<registry, created, pending, calls,
                   env, plugins, pc, writes, reads, resolvedFrom>>

\* projectAgent.init(runtime): initCharacter logs the character's name
ProjectAgentInit ==
    /\ pc = "loaded"
    /\ last' = [ op |-> "projectAgent.init",
                 logged |-> << "Initializing character", [ name |-> "Eliza" ] >> ]
    /\ UNCHANGED <<registry, created, pending, calls,
                   env, plugins, pc, writes, reads, resolvedFrom>>

-----------------------------------------------------------------------------
(* The agent process: the project and the starter plugin in use *)

\* the keys changed while the agent runs: a provider key and IGNORE_BOOTSTRAP
AgentKeys == { "OPENAI_API_KEY", "IGNORE_BOOTSTRAP" }

\* the values they are set to
AgentStrings == { <<>>, KeyValue }

AgentEnvs == { [k \in S |-> KeyValue] : S \in SUBSET AgentKeys }

InitAgent ==
    /\ env \in AgentEnvs
    /\ plugins = <<>>
    /\ pc = "start"
    /\ writes = 0
    /\ reads = <<>>
    /\ resolvedFrom = << >>
    /\ registry = 0
    /\ created = 0
    /\ pending = {}
    /\ calls = 0
    /\ last = [op |-> "none"]

\* the environment is changed while the agent runs
ChangeAgentEnv ==
    /\ pc = "loaded"
    /\ \/ \E k \in AgentKeys, v \in AgentStrings : SetEnv(k, v)
       \/ \E k \in AgentKeys : DeleteEnv(k)

NextAgent ==
    \/ LoadCharacter
    \/ ChangeAgentEnv
    \/ StarterServiceStart
    \/ \E i \in 1..MaxStarts : RegisterService(i)
    \/ StarterServiceStop
    \/ HelloWorldAction
    \/ HelloWorldProvider
    \/ PluginInit
    \/ HelloWorldRoute
    \/ EventHandler
    \/ ProjectAgentInit

SpecAgent == InitAgent /\ [][NextAgent]_vars

-----------------------------------------------------------------------------
(* Vocabulary of the properties *)

Sql == "@elizaos/plugin-sql"
Bootstrap == "@elizaos/plugin-bootstrap"
Twitter == "@elizaos/plugin-twitter"

\* the fixed catalog, in category order
Catalog ==
    << "@elizaos/plugin-sql", "@elizaos/plugin-anthropic",
       "@elizaos/plugin-openrouter", "@elizaos/plugin-openai",
       "@elizaos/plugin-google-genai", "@elizaos/plugin-ollama",
       "@elizaos/plugin-discord", "@elizaos/plugin-twitter",
       "@elizaos/plugin-telegram", "@elizaos/plugin-bootstrap" >>

EmbeddingProviders == { "@elizaos/plugin-openai", "@elizaos/plugin-google-genai" }

\* the configuration keys a provider or platform plugin requires
Requires(id) ==
    CASE id = "@elizaos/plugin-anthropic" -> { "ANTHROPIC_API_KEY" }
      [] id = "@elizaos/plugin-openrouter" -> { "OPENROUTER_API_KEY" }
      [] id = "@elizaos/plugin-openai" -> { "OPENAI_API_KEY" }
      [] id = "@elizaos/plugin-google-genai" -> { "GOOGLE_GENERATIVE_AI_API_KEY" }
      [] id = "@elizaos/plugin-ollama" -> { "OLLAMA_API_ENDPOINT" }
      [] id = "@elizaos/plugin-discord" -> { "DISCORD_API_TOKEN" }
      [] id = "@elizaos/plugin-twitter" -> TwitterKeys
      [] id = "@elizaos/plugin-telegram" -> { "TELEGRAM_BOT_TOKEN" }
      [] OTHER -> {}

Conditional == { Catalog[i] : i \in 2..(Len(Catalog) - 1) }

\* the key is defined and holds at least one character that is not white space
NonBlank(e, k) ==
    k \in DOMAIN e /\ \E i \in 1..Len(e[k]) : e[k][i] \notin WhiteSpace

\* the key is defined and holds at least one character
NonEmpty(e, k) == k \in DOMAIN e /\ e[k] # <<>>

Available(e, id) ==
    IF id = Sql THEN TRUE
    ELSE IF id = Bootstrap THEN ~NonEmpty(e, "IGNORE_BOOTSTRAP")
    ELSE \A k \in Requires(id) : NonBlank(e, k)

Has(list, id) == \E i \in 1..Len(list) : list[i] = id

IndexOf(list, id) == CHOOSE i \in 1..Len(list) : list[i] = id

RECURSIVE Without(_, _)
Without(list, id) ==
    IF list = <<>> THEN <<>>
    ELSE IF Head(list) = id THEN Without(Tail(list), id)
    ELSE <<Head(list)>> \o Without(Tail(list), id)

RECURSIVE AvailableOf(_, _)
AvailableOf(list, e) ==
    IF list = <<>> THEN <<>>
    ELSE IF Available(e, Head(list)) THEN <<Head(list)>> \o AvailableOf(Tail(list), e)
    ELSE AvailableOf(Tail(list), e)

\* e without key k
Unset(e, k) == [x \in DOMAIN e \ {k} |-> e[x]]

\* e with key k holding v
With(e, k, v) == [x \in DOMAIN e \cup {k} |-> IF x = k THEN v ELSE e[x]]

Resolved == pc = "loaded"

-----------------------------------------------------------------------------
(* Properties *)

C2_CoreFirst ==
    pc # "start" => (Len(plugins) >= 1 /\ plugins[1] = Sql)

C2_Witness ==
    /\ Resolved
    /\ NonEmpty(resolvedFrom, "IGNORE_BOOTSTRAP")
    /\ \E k \in SingleKeys : k \in DOMAIN resolvedFrom /\ ~NonBlank(resolvedFrom, k)
    /\ \E k \in SingleKeys : NonBlank(resolvedFrom, k)

\* C3: no plugin identifier occurs more than once in the resolved list.
C3_NoDuplicates ==
    Resolved =>
        \A i, j \in 1..Len(plugins) : plugins[i] = plugins[j] => i = j

C3_Witness ==
    Resolved /\ Len(plugins) = Len(Catalog)

C5_TwitterAllFour ==
    Resolved =>
        (Has(plugins, Twitter) <=> \A k \in TwitterKeys : NonBlank(resolvedFrom, k))

C5_Witness ==
    /\ Resolved
    /\ \E k \in TwitterKeys :
          /\ k \in DOMAIN resolvedFrom
          /\ ~NonBlank(resolvedFrom, k)
          /\ \A o \in TwitterKeys \ {k} : NonBlank(resolvedFrom, o)

\* C6: a provider or platform plugin one of whose required keys is unset,
\* empty or whitespace-only is never included, and evaluating the list with
\* absent keys never raises an error.
C6_BlankKeyExcludes ==
    /\ pc # "failed"
    /\ Resolved =>
          \A id \in Conditional :
              (\E k \in Requires(id) : ~NonBlank(resolvedFrom, k))
                  => ~Has(plugins, id)

C6_Witness ==
    /\ Resolved
    /\ \E k \in SingleKeys : k \notin DOMAIN resolvedFrom
    /\ \E k \in SingleKeys :
          /\ k \in DOMAIN resolvedFrom
          /\ Len(resolvedFrom[k]) > 0
          /\ ~NonBlank(resolvedFrom, k)

\* C7: two configurations that differ only in IGNORE_BOOTSTRAP (unset in one,
\* a non-empty value in the other) resolve to lists that differ only by the
\* bootstrap identifier, removed in the second; {OPENAI_API_KEY: "x",
\* IGNORE_BOOTSTRAP: "1"} resolves to [plugin-sql, plugin-openai].
C7_SuppressionFrame ==
    Resolved =>
        /\ NonEmpty(resolvedFrom, "IGNORE_BOOTSTRAP") =>
              LET other == CharacterPlugins(Unset(resolvedFrom, "IGNORE_BOOTSTRAP")).list
              IN  /\ Has(other, Bootstrap)
                  /\ ~Has(plugins, Bootstrap)
                  /\ plugins = Without(other, Bootstrap)
        /\ "IGNORE_BOOTSTRAP" \notin DOMAIN resolvedFrom =>
              \A v \in EnvStrings \ { <<>> } :
                  LET other == CharacterPlugins(With(resolvedFrom, "IGNORE_BOOTSTRAP", v)).list
                  IN  /\ Has(plugins, Bootstrap)
                      /\ ~Has(other, Bootstrap)
                      /\ other = Without(plugins, Bootstrap)
        /\ ( /\ DOMAIN resolvedFrom = { "OPENAI_API_KEY", "IGNORE_BOOTSTRAP" }
             /\ NonBlank(resolvedFrom, "OPENAI_API_KEY")
             /\ NonEmpty(resolvedFrom, "IGNORE_BOOTSTRAP") )
              => plugins = <<Sql, "@elizaos/plugin-openai">>

C7_Witness ==
    /\ Resolved
    /\ DOMAIN resolvedFrom = { "OPENAI_API_KEY", "TELEGRAM_BOT_TOKEN", "IGNORE_BOOTSTRAP" }
    /\ NonBlank(resolvedFrom, "OPENAI_API_KEY")
    /\ NonBlank(resolvedFrom, "TELEGRAM_BOT_TOKEN")
    /\ NonEmpty(resolvedFrom, "IGNORE_BOOTSTRAP")

\* C8 as stated: the bootstrap identifier is absent whenever IGNORE_BOOTSTRAP
\* is defined, whatever its value (the empty string included), and present
\* exactly when the key is undefined.
C8_PresenceAlone ==
    Resolved =>
        (Has(plugins, Bootstrap) <=> "IGNORE_BOOTSTRAP" \notin DOMAIN resolvedFrom)

\* C8 amended: the bootstrap identifier is absent exactly when
\* IGNORE_BOOTSTRAP is defined and not the empty string (no trimming: a
\* whitespace-only value suppresses); it is present when the key is undefined
\* or holds the empty string.
C8_NonEmptySuppresses ==
    Resolved =>
        (Has(plugins, Bootstrap) <=> ~NonEmpty(resolvedFrom, "IGNORE_BOOTSTRAP"))

C8_Witness ==
    /\ Resolved
    /\ NonEmpty(resolvedFrom, "IGNORE_BOOTSTRAP")
    /\ ~NonBlank(resolvedFrom, "IGNORE_BOOTSTRAP")

\* C9: whenever the bootstrap identifier and an embedding-capable provider
\* (plugin-openai, plugin-google-genai) are both in the resolved list,
\* bootstrap comes first; with only OPENAI_API_KEY set the list is
\* [plugin-sql, plugin-bootstrap, plugin-openai].
C9_EmbeddingAfterBootstrap ==
    Resolved =>
        /\ \A id \in EmbeddingProviders :
              (Has(plugins, Bootstrap) /\ Has(plugins, id))
                  => IndexOf(plugins, Bootstrap) < IndexOf(plugins, id)
        /\ ( /\ DOMAIN resolvedFrom = { "OPENAI_API_KEY" }
             /\ NonBlank(resolvedFrom, "OPENAI_API_KEY") )
              => plugins = <<Sql, Bootstrap, "@elizaos/plugin-openai">>

C13_StartFailsIffRegistered ==
    /\ created <= calls
    /\ last.op = "StarterService.start" =>
          /\ last.threw <=> last.found # 0
          /\ last.threw =>
                /\ last.error = "Starter service already registered"
                /\ last.instance = 0
                /\ created < calls
          /\ ~last.threw =>
                /\ last.instance = created
                /\ last.instance >= 1
                /\ last.instance # last.found

C13_Witness ==
    /\ last.op = "StarterService.start"
    /\ last.threw
    /\ registry # 0
    /\ created = 1
    /\ calls = 2

C15_SingleInstance ==
    created <= 1

HandlerRan == last.op = "HELLO_WORLD.handler"

HasContent(message) == "content" \in DOMAIN message

\* the positions of the callback's invocations in a trace
CallbackCalls(trace) == { i \in DOMAIN trace : trace[i].ev = "callback" }

\* the positions at which the handler returns
Returns(trace) == { i \in DOMAIN trace : trace[i].ev = "return" }

\* the result the handler returned
HandlerResult(trace) == trace[CHOOSE i \in Returns(trace) : TRUE].result

FixedReply(content) ==
    /\ content.text = "hello world!"
    /\ \E j \in DOMAIN content.actions : content.actions[j] = "HELLO_WORLD"

\* C16 as stated: whatever the message and whatever the callback does, the
\* handler emits the fixed reply through the callback and returns a result
\* with success = true and values {success: true, greeted: true}.
C16_Unconditional ==
    HandlerRan =>
        /\ \E i \in CallbackCalls(last.trace) : FixedReply(last.trace[i].content)
        /\ HandlerResult(last.trace).success = TRUE
        /\ HandlerResult(last.trace).values = [ success |-> TRUE, greeted |-> TRUE ]

\* C16 (amended): the handler always returns a result and never throws. When
\* the message has content and the callback completes, it has emitted the
\* fixed reply and the result has success = true and values {success: true,
\* greeted: true}; when the message has no content, or the callback throws or
\* rejects, the result has success = false and values {success: false,
\* error: "GREETING_FAILED"}.
C16_SuccessWhenDelivered ==
    HandlerRan =>
        /\ Cardinality(Returns(last.trace)) = 1
        /\ IF HasContent(last.message) /\ last.callback = "returns"
           THEN /\ \E i \in CallbackCalls(last.trace) :
                      FixedReply(last.trace[i].content)
                /\ HandlerResult(last.trace).success = TRUE
                /\ HandlerResult(last.trace).values =
                      [ success |-> TRUE, greeted |-> TRUE ]
           ELSE /\ HandlerResult(last.trace).success = FALSE
                /\ HandlerResult(last.trace).values =
                      [ success |-> FALSE, error |-> "GREETING_FAILED" ]

C16_Witness ==
    /\ HandlerRan
    /\ last.message.id = "m3"
    /\ last.callback = "returns"
    /\ HandlerResult(last.trace).success = TRUE

\* C17: when the handler is invoked with a message that has content, the
\* callback is invoked exactly once, before the handler returns, with content
\* whose text is "hello world!", whose actions contain "HELLO_WORLD" and whose
\* source is the source of the incoming message's content.
C17_CallbackOnceBeforeReturn ==
    (HandlerRan /\ HasContent(last.message)) =>
        /\ Cardinality(CallbackCalls(last.trace)) = 1
        /\ \A i \in CallbackCalls(last.trace) :
              /\ \A r \in Returns(last.trace) : i < r
              /\ FixedReply(last.trace[i].content)
              /\ last.trace[i].content.source = Get(last.message.content, "source")

C17_Witness ==
    /\ HandlerRan
    /\ last.message.id = "m4"
    /\ Cardinality(CallbackCalls(last.trace)) = 1
    /\ last.trace[1].content.source = "discord"
    /\ last.trace[2].ev = "return"

\* C18: the content the handler passes to the callback has text equal to
\* "hello world!" and a field `action` equal to "HELLO_WORLD".
C18_ActionField ==
    HandlerRan =>
        \A i \in CallbackCalls(last.trace) :
            /\ last.trace[i].content.text = "hello world!"
            /\ "action" \in DOMAIN last.trace[i].content
            /\ last.trace[i].content.action = "HELLO_WORLD"

\* C19: HELLO_WORLD_PROVIDER.get returns {text: "I am a provider", values: {},
\* data: {}} for every input, null and malformed ones included, and never
\* throws.
C19_ProviderFixed ==
    last.op = "HELLO_WORLD_PROVIDER.get" =>
        /\ ~last.outcome.threw
        /\ last.outcome.result =
              [ text |-> "I am a provider", values |-> EmptyObject,
                data |-> EmptyObject ]

C19_Witness ==
    /\ last.op = "HELLO_WORLD_PROVIDER.get"
    /\ last.runtime = "null"
    /\ last.message = "malformed"
    /\ last.state = "null"
    /\ last.outcome.result.text = "I am a provider"

\* C20: plugin init throws exactly when the config gives EXAMPLE_PLUGIN_VARIABLE
\* the empty string, and the error's message then starts with "Invalid plugin
\* configuration:"; with a non-empty value, an empty config or extra unknown
\* keys it completes without error.
C20_InitRejectsEmpty ==
    last.op = "plugin.init" =>
        /\ last.threw <=>
              /\ "EXAMPLE_PLUGIN_VARIABLE" \in DOMAIN last.config
              /\ last.config["EXAMPLE_PLUGIN_VARIABLE"] = <<>>
        /\ last.threw =>
              /\ last.error.isError
              /\ last.error.message =
                    "Invalid plugin configuration:" \o " " \o Join(last.errors)
              /\ Len(last.errors) > 0
        /\ ~last.threw => last.error = Undefined

C20_Witness ==
    /\ last.op = "plugin.init"
    /\ last.threw
    /\ DOMAIN last.config = { "EXAMPLE_PLUGIN_VARIABLE" }
    /\ last.error.message =
          "Invalid plugin configuration: Example plugin variable is not provided"

\* C12: the plugin list is resolved once. After the character is constructed
\* no step (a change of a provider key or of IGNORE_BOOTSTRAP, the environment
\* write of plugin init, projectAgent.init, the action, the provider, the
\* service, the route, the event handlers) changes character.plugins or
\* resolves it again.
C12_ResolvedOnce ==
    [][ pc = "loaded" =>
           /\ pc' = "loaded"
           /\ plugins' = plugins
           /\ resolvedFrom' = resolvedFrom ]_vars

C12_Witness ==
    /\ Resolved
    /\ last.op = "plugin.init"
    /\ ~last.threw
    /\ "EXAMPLE_PLUGIN_VARIABLE" \in DOMAIN env
    /\ writes > 0
    /\ registry # 0
    /\ CharacterPlugins(env).list # plugins
    /\ plugins = CharacterPlugins(resolvedFrom).list

\* a step of the operation called name: it leaves its record in last; the
\* environment changes of the test harness count a write and the runtime's
\* registration takes an instance from pending, the operations do neither
OpStep(name) ==
    /\ last'.op = name
    /\ writes' = writes
    /\ pending' = pending

InitStep == OpStep("plugin.init") /\ pc = "loaded"

ExampleVariable == "EXAMPLE_PLUGIN_VARIABLE"

\* C21: after a successful plugin init with config EXAMPLE_PLUGIN_VARIABLE = v
\* for a non-empty v, the environment variable EXAMPLE_PLUGIN_VARIABLE equals
\* v, whether it was unset or held another value before the call.
C21_InitSetsVariable ==
    [][ ( /\ InitStep
          /\ ~last'.threw
          /\ ExampleVariable \in DOMAIN last'.config
          /\ Len(last'.config[ExampleVariable]) > 0 )
        => /\ ExampleVariable \in DOMAIN env'
           /\ env'[ExampleVariable] = last'.config[ExampleVariable] ]_vars

C21_Witness ==
    /\ last.op = "plugin.init"
    /\ ~last.threw
    /\ ExampleVariable \in DOMAIN last.config
    /\ last.config[ExampleVariable] = <<" ">>
    /\ env[ExampleVariable] = <<" ">>

\* C22: an init whose config omits EXAMPLE_PLUGIN_VARIABLE leaves a
\* pre-existing EXAMPLE_PLUGIN_VARIABLE at its previous value, and no init
\* creates or changes an environment variable other than
\* EXAMPLE_PLUGIN_VARIABLE; extra config keys are not copied.
C22_InitFrame ==
    [][ InitStep =>
          /\ DOMAIN env' \ {ExampleVariable} = DOMAIN env \ {ExampleVariable}
          /\ \A k \in DOMAIN env \ {ExampleVariable} : env'[k] = env[k]
          /\ ExampleVariable \notin DOMAIN last'.config =>
                /\ (ExampleVariable \in DOMAIN env') = (ExampleVariable \in DOMAIN env)
                /\ ExampleVariable \in DOMAIN env =>
                      env'[ExampleVariable] = env[ExampleVariable] ]_vars

C22_Witness ==
    /\ last.op = "plugin.init"
    /\ ~last.threw
    /\ DOMAIN last.config = { "EXTRA_PROPERTY" }
    /\ ExampleVariable \in DOMAIN env
    /\ env[ExampleVariable] = KeyValue
    /\ "EXTRA_PROPERTY" \notin DOMAIN env
    /\ "OPENAI_API_KEY" \in DOMAIN env

\* C30: a plugin init that fails validation leaves the environment unchanged.
C30_FailedInitFrame ==
    [][ (InitStep /\ last'.threw) => env' = env ]_vars

C30_Witness ==
    /\ last.op = "plugin.init"
    /\ last.threw
    /\ "EXTRA_PROPERTY" \in DOMAIN last.config
    /\ ExampleVariable \in DOMAIN env
    /\ env[ExampleVariable] = KeyValue

TextOnlyProviders == { "@elizaos/plugin-anthropic", "@elizaos/plugin-openrouter" }

EmbeddingCapable == EmbeddingProviders \cup { "@elizaos/plugin-ollama" }

AiProviders == TextOnlyProviders \cup EmbeddingCapable

\* plugins.slice(-3): the positions of the last three entries
LastThree(list) == { i \in 1..Len(list) : i > Len(list) - 3 }

\* C23: whenever the resolved list contains an embedding-capable plugin
\* (openai, ollama, google-genai), at least one of its last three entries is
\* an embedding-capable plugin, platform plugins enabled or not.
C23_EmbeddingAmongLastThree ==
    Resolved =>
        ( (\E i \in 1..Len(plugins) : plugins[i] \in EmbeddingCapable)
            => \E i \in LastThree(plugins) : plugins[i] \in EmbeddingCapable )

\* C24: whenever the resolved list contains both a text-only provider and an
\* embedding-capable provider, every text-only provider is at a smaller index
\* than every embedding-capable provider.
C24_TextOnlyBeforeEmbedding ==
    Resolved =>
        \A i, j \in 1..Len(plugins) :
            (plugins[i] \in TextOnlyProviders /\ plugins[j] \in EmbeddingCapable)
                => i < j

C24_Witness ==
    /\ Resolved
    /\ Has(plugins, "@elizaos/plugin-openrouter")
    /\ Has(plugins, "@elizaos/plugin-google-genai")
    /\ Has(plugins, "@elizaos/plugin-ollama")
    /\ Has(plugins, "@elizaos/plugin-discord")
    /\ IndexOf(plugins, "@elizaos/plugin-openrouter")
          < IndexOf(plugins, "@elizaos/plugin-google-genai")

\* C25: the character's plugin list contains at least one AI provider plugin
\* in every configuration, the one without any provider key included.
C25_SomeAiProvider ==
    Resolved => \E i \in 1..Len(plugins) : plugins[i] \in AiProviders

\* C26: the handler of GET /helloworld answers every request, whatever its
\* content, by sending exactly one JSON payload {message: "Hello World!"} and
\* has no other effect.
C26_RouteFixedPayload ==
    [][ (OpStep("GET /helloworld") /\ pc = "loaded") =>
          /\ last'.json = <<[ message |-> "Hello World!" ]>>
          /\ UNCHANGED <<env, plugins, pc, reads, resolvedFrom,
                         registry, created, calls>> ]_vars

C26_Witness ==
    /\ last.op = "GET /helloworld"
    /\ "body" \in DOMAIN last.req
    /\ Len(last.json) = 1
    /\ last.json[1].message = "Hello World!"

\* C27: the handler never throws. When the callback throws or rejects, or the
\* message has no content, it returns a result with success = false, values
\* {success: false, error: "GREETING_FAILED"} and the caught error attached.
C27_FailureReturned ==
    (HandlerRan /\ (~HasContent(last.message) \/ last.callback # "returns")) =>
        /\ Returns(last.trace) = { Len(last.trace) }
        /\ LET result == HandlerResult(last.trace)
           IN  /\ result.success = FALSE
               /\ result.values = [ success |-> FALSE, error |-> "GREETING_FAILED" ]
               /\ "error" \in DOMAIN result
               /\ result.error.isError
               /\ "error" \in DOMAIN result.data
               /\ result.data.error = result.error.message
               /\ (HasContent(last.message) /\ last.callback = "throws")
                     => result.error.message = "callback failed"
               /\ (HasContent(last.message) /\ last.callback = "rejects")
                     => result.error.message = "send failed"

C27_Witness ==
    /\ HandlerRan
    /\ last.message.id = "m3"
    /\ last.callback = "rejects"
    /\ HandlerResult(last.trace).success = FALSE
    /\ HandlerResult(last.trace).error.message = "send failed"

StopStep == OpStep("StarterService.stop") /\ calls' = calls

StartStep == calls' = calls + 1

\* C28: StarterService.stop never changes the service registry. After a
\* successful stop the instance is still registered, so a following start
\* fails with "Starter service already registered" and every further stop
\* succeeds.
C28_StopKeepsRegistry ==
    [][ /\ StopStep => registry' = registry
        /\ (StopStep /\ registry # 0) =>
              /\ ~last'.threw
              /\ last'.invoked = <<registry>>
        /\ (StartStep /\ last.op = "StarterService.stop" /\ ~last.threw) =>
              /\ last'.threw
              /\ last'.error = "Starter service already registered" ]_vars

C28_Witness ==
    /\ last.op = "StarterService.stop"
    /\ ~last.threw
    /\ registry # 0
    /\ registry = last.found
    /\ pending = {}
    /\ calls = 1

\* C29: StarterService.start never writes to the service registry. Until the
\* runtime registers a returned instance, consecutive start calls all succeed
\* and return distinct instances.
C29_StartKeepsRegistry ==
    [][ StartStep =>
          /\ registry' = registry
          /\ registry = 0 =>
                /\ ~last'.threw
                /\ last'.instance # 0
                /\ last'.instance \notin pending
                /\ pending' = pending \cup { last'.instance } ]_vars

C29_Witness ==
    /\ last.op = "StarterService.start"
    /\ ~last.threw
    /\ last.instance = 2
    /\ registry = 0
    /\ pending = { 1, 2 }

=============================================================================
